---------------------------- MODULE Spec2Model ----------------------------
(***************************************************************************)
(* Execution-resilience layer of cinecut: the model-server lifecycle       *)
(* managers (LlavaEngine, TextEngine) around the process-wide GPU_LOCK,    *)
(* the atomic checkpoint store, the inference result cache and the stage   *)
(* gating of the orchestrator (cli.main).                                  *)
(*                                                                         *)
(* The module holds several specifications over one set of variables:      *)
(*   SpecEngine  engine scopes entered and exited by concurrent threads,   *)
(*               and the encode step of the conform stage                  *)
(*   SpecEngineLive  SpecEngine with every thread inside __enter__ or      *)
(*               __exit__ scheduled again and again                        *)
(*   SpecVram    one call of wait_for_vram against a clock                 *)
(*   SpecStore   the write sequence of save_checkpoint / save_cache with    *)
(*               process kills and power losses                            *)
(*   SpecCkpt    save_checkpoint / load_checkpoint / mark_stage_complete   *)
(*               on every checkpoint value and every state of the file     *)
(*   SpecCache   save_cache / load_cache while the source files change     *)
(*   SpecRun     main from the checkpoint init to the proxy duration       *)
(*   SpecStages  main from subtitle parsing to the music stage             *)
(* Each specification leaves the variables of the other parts unchanged.   *)
(***************************************************************************)
EXTENDS Naturals, Integers, Sequences, FiniteSets, TLC

VARIABLES
    \* ---- engine scopes (inference/engine.py, inference/text_engine.py)
    pc,        \* scope -> position inside __enter__ / body / __exit__
    kind,      \* scope -> "llava" | "text"
    locked,    \* GPU_LOCK.locked()
    holders,   \* scopes whose acquire() returned and whose release() has not run
    proc,      \* scope -> state of the llama-server child spawned by the scope
    polls,     \* scope -> completed iterations of the current polling loop
    bodyExc,   \* scope -> TRUE when the body of the with-statement raised
    orphans,   \* llama-server children still alive whose scope object is gone
    err,       \* scope -> the exception __enter__ raised from _start ("none" if none)
    outer,     \* scope -> the scope in whose with-body it was entered (0: in a thread of its own)
    \* ---- atomic write of save_checkpoint / save_cache (checkpoint.py, cache.py)
    fs,        \* the destination file and the temporary file, as cached and as on disk
    wr,        \* the writing process: position in the write sequence, what it writes
    \* ---- checkpoint store (checkpoint.py)
    ck,        \* a PipelineCheckpoint in memory, the checkpoint file, the last load,
               \* the calls of mark_stage_complete per stage name
    \* ---- inference result cache (inference/cache.py)
    ca,        \* stat of the source files, the cache files, the last load_cache
    \* ---- one run of the orchestrator (cli.py main)
    run,       \* position in main, its arguments, what it ran and what it skipped
    \* ---- one timed call of wait_for_vram (inference/vram.py)
    vw,        \* the clock, the deadline, the free memory, the position in the loop
    \* ---- the encode step of the conform stage (conform/pipeline.py)
    enc        \* "idle" | "encoding"

engineVars == <<pc, kind, locked, holders, proc, polls, bodyExc, orphans, err, outer>>

storeVars == <<fs, wr>>

vars == <<pc, kind, locked, holders, proc, polls, bodyExc, orphans, err, outer, fs, wr, ck, ca, run, vw, enc>>

\* What the engine scopes never touch.
notEngine == <<fs, wr, ck, ca, run, vw, enc>>

\* What the write sequence never touches.
notStore == <<pc, kind, locked, holders, proc, polls, bodyExc, orphans, err, outer, ck, ca, run, vw, enc>>

\* What the checkpoint store never touches.
notCkpt == <<pc, kind, locked, holders, proc, polls, bodyExc, orphans, err, outer, fs, wr, ca, run, vw, enc>>

\* What the result cache never touches.
notCache == <<pc, kind, locked, holders, proc, polls, bodyExc, orphans, err, outer, fs, wr, ck, run, vw, enc>>

\* What a run of the orchestrator never touches.
notRun == <<pc, kind, locked, holders, proc, polls, bodyExc, orphans, err, outer, fs, wr, vw, enc>>

\* What a call of wait_for_vram never touches.
notVram == <<pc, kind, locked, holders, proc, polls, bodyExc, orphans, err, outer, fs, wr, ck, ca, run, enc>>

\* What the encode step never touches.
notEncode == <<pc, kind, locked, holders, proc, polls, bodyExc, orphans, err, outer, fs, wr, ck, ca, run, vw>>

(***************************************************************************)
(* Bounds of the model.                                                    *)
(***************************************************************************)
NScopes == 2          \* engine scopes that can be open or opening at once
MaxHealthPolls == 2   \* iterations of the /health loop that fit before the deadline
MaxVramPolls == 2     \* iterations of wait_for_vram that fit before the deadline
MaxOrphans == 1       \* children left running that the model keeps counting

Scopes == 1..NScopes
Kinds == {"llava", "text"}

(***************************************************************************)
(* Program constants.                                                      *)
(***************************************************************************)
VRAM_MINIMUM_MIB == 6144

\* Readings of `nvidia-smi --query-gpu=memory.free`; -1 stands for a failed
\* or unparsable query.
VramReadings == {-1, 0, 6143, 6144, 8000}

\* What one GET /health can produce, as the poll loop distinguishes it:
\*   "ok"        status 200, JSON object with status "ok"
\*   "loading"   any non-200 status (r.json() is not evaluated)
\*   "other"     status 200, JSON object whose status is not "ok"
\*   "refused"   requests.RequestException (connection refused, timeout, ...)
\*   "nonobject" status 200, JSON body that is not an object (list, string,
\*               number, null): r.json().get raises AttributeError
\*   "nonjson"   status 200, body that is not JSON: r.json() raises
\*               requests.exceptions.JSONDecodeError, a RequestException
HealthResponses == {"ok", "loading", "other", "refused", "nonobject", "nonjson"}

Live == {"running", "terminating"}

\* The two errors _wait_for_health raises itself: InferenceError with the
\* message of the early exit and with the message of the timeout.
ExitedDuringStartup == "InferenceError: llama-server exited during startup"
DidNotBecomeHealthy == "InferenceError: llama-server did not become healthy"

\* Number of llama-server processes alive: children of open scopes plus
\* children whose scope is gone.
LiveServers == Cardinality({s \in Scopes : proc[s] \in Live}) + orphans

(***************************************************************************)
(* threading.Lock                                                          *)
(***************************************************************************)
\* Mutant of LockAcquire: a reentrant lock (threading.RLock), which the
\* thread that holds it acquires again.
LockAcquire_Reentrant(s) ==
    /\ ~locked \/ (outer[s] # 0 /\ outer[s] \in holders)
    /\ locked' = TRUE
    /\ holders' = holders \cup {s}

\* GPU_LOCK.acquire(): blocks while the lock is held, whoever holds it.
LockAcquire(s) ==
    /\ ~locked
    /\ locked' = TRUE
    /\ holders' = holders \cup {s}

\* GPU_LOCK.release()
LockRelease(s) ==
    /\ locked' = FALSE
    /\ holders' = holders \ {s}

(***************************************************************************)
(* check_vram_free_mib / assert_vram_available: one query; VramError when  *)
(* the query fails or the reading is below VRAM_MINIMUM_MIB.               *)
(***************************************************************************)
CheckVramRaises(r) == r < 0 \/ r < VRAM_MINIMUM_MIB

\* _check_vram_free_mib_raw: the reading, 0 on any failure.
CheckVramRaw(r) == IF r < 0 THEN 0 ELSE r

(***************************************************************************)
(* __enter__                                                               *)
(***************************************************************************)
\* The thread of scope u is executing the body of its with-statement: the
\* scope is entered and no scope entered inside the body is in progress.
InBody(u) ==
    /\ pc[u] = "healthy"
    /\ \A w \in Scopes : outer[w] = u => pc[w] = "idle"

\* `with LlavaEngine(...)` / `with TextEngine(...)` starts: __enter__ is called,
\* by a thread of its own or inside the with-body of an open scope.
Enter(s) ==
    /\ pc[s] = "idle"
    /\ \E k \in Kinds : kind' = [kind EXCEPT ![s] = k]
    /\ \E o \in {0} \cup {u \in Scopes \ {s} : InBody(u)} : outer' = [outer EXCEPT ![s] = o]
    /\ pc' = [pc EXCEPT ![s] = "preflight"]
    /\ polls' = [polls EXCEPT ![s] = 0]
    /\ UNCHANGED <<locked, holders, proc, bodyExc, orphans, err>>
    /\ UNCHANGED notEngine

\* The pre-flight made after GPU_LOCK.acquire(), outside the try (a weakening).
PreflightLlava_LockFirst(s) ==
    /\ pc[s] = "preflight"
    /\ kind[s] = "llava"
    /\ LockAcquire(s)
    /\ \E r \in VramReadings :
         pc' = [pc EXCEPT ![s] = IF CheckVramRaises(r) THEN "pre_raised" ELSE "start"]
    /\ UNCHANGED <<kind, proc, polls, bodyExc, orphans, err, outer>>
    /\ UNCHANGED notEngine

\* LlavaEngine.__enter__: assert_vram_available() before the lock.
PreflightLlava(s) ==
    /\ pc[s] = "preflight"
    /\ kind[s] = "llava"
    /\ \E r \in VramReadings :
         pc' = [pc EXCEPT ![s] = IF CheckVramRaises(r) THEN "pre_raised" ELSE "acquire"]
    /\ UNCHANGED <<kind, locked, holders, proc, polls, bodyExc, orphans, err, outer>>
    /\ UNCHANGED notEngine

\* TextEngine.__enter__: wait_for_vram(), one iteration of its loop.
WaitForVramPoll(s) ==
    /\ pc[s] = "preflight"
    /\ kind[s] = "text"
    /\ polls[s] < MaxVramPolls
    /\ \E r \in VramReadings :
         IF CheckVramRaw(r) >= VRAM_MINIMUM_MIB
         THEN /\ pc' = [pc EXCEPT ![s] = "acquire"]
              /\ polls' = [polls EXCEPT ![s] = 0]
         ELSE /\ polls' = [polls EXCEPT ![s] = @ + 1]
              /\ UNCHANGED pc
    /\ UNCHANGED <<kind, locked, holders, proc, bodyExc, orphans, err, outer>>
    /\ UNCHANGED notEngine

\* wait_for_vram: the deadline has passed, VramError.
WaitForVramTimeout(s) ==
    /\ pc[s] = "preflight"
    /\ kind[s] = "text"
    /\ polls[s] >= MaxVramPolls
    /\ pc' = [pc EXCEPT ![s] = "pre_raised"]
    /\ UNCHANGED <<kind, locked, holders, proc, polls, bodyExc, orphans, err, outer>>
    /\ UNCHANGED notEngine

\* Mutant of Acquire: the memory check is made again once the lock is held.
Acquire_ThenCheckAgain(s) ==
    /\ pc[s] = "acquire"
    /\ LockAcquire(s)
    /\ pc' = [pc EXCEPT ![s] = "preflight"]
    /\ UNCHANGED <<kind, proc, polls, bodyExc, orphans, err, outer>>
    /\ UNCHANGED notEngine

\* GPU_LOCK.acquire() in __enter__.
Acquire(s) ==
    /\ pc[s] = "acquire"
    /\ LockAcquire(s)
    /\ pc' = [pc EXCEPT ![s] = "start"]
    /\ UNCHANGED <<kind, proc, polls, bodyExc, orphans, err, outer>>
    /\ UNCHANGED notEngine

\* _start: subprocess.Popen succeeded; _wait_for_health computes its deadline.
StartSpawn(s) ==
    /\ pc[s] = "start"
    /\ proc' = [proc EXCEPT ![s] = "running"]
    /\ polls' = [polls EXCEPT ![s] = 0]
    /\ pc' = [pc EXCEPT ![s] = "poll"]
    /\ UNCHANGED <<kind, locked, holders, bodyExc, orphans, err, outer>>
    /\ UNCHANGED notEngine

\* The handler of __enter__: `except Exception: GPU_LOCK.release(); raise`.
\* Nothing else is done on this path: the child is neither terminated nor waited for.
EnterExceptHandler(s) ==
    /\ LockRelease(s)
    /\ pc' = [pc EXCEPT ![s] = "enter_raised"]

\* _start: open(log_path) or subprocess.Popen raised (OSError): no child exists.
StartSpawnFails(s) ==
    /\ pc[s] = "start"
    /\ EnterExceptHandler(s)
    /\ err' = [err EXCEPT ![s] = "OSError"]
    /\ UNCHANGED <<kind, proc, polls, bodyExc, orphans, outer>>
    /\ UNCHANGED notEngine

\* Mutant of PollChildExited: the loop body without the test of poll(); the
\* request to the dead server fails and the loop sleeps.
PollChildExited_Ignored(s) ==
    /\ pc[s] = "poll"
    /\ polls[s] < MaxHealthPolls
    /\ proc[s] = "exited"
    /\ polls' = [polls EXCEPT ![s] = @ + 1]
    /\ UNCHANGED <<pc, kind, locked, holders, proc, bodyExc, orphans, err, outer>>
    /\ UNCHANGED notEngine

\* _wait_for_health, loop body: the child has exited on its own, InferenceError.
PollChildExited(s) ==
    /\ pc[s] = "poll"
    /\ polls[s] < MaxHealthPolls
    /\ proc[s] = "exited"
    /\ EnterExceptHandler(s)
    /\ err' = [err EXCEPT ![s] = ExitedDuringStartup]
    /\ UNCHANGED <<kind, proc, polls, bodyExc, orphans, outer>>
    /\ UNCHANGED notEngine

\* What the loop body does with one response of GET /health:
\* "return" (healthy), "sleep" (next iteration) or "raise" (an exception that
\* `except requests.RequestException` does not catch leaves _wait_for_health).
HealthOutcome(r) ==
    CASE r = "ok"        -> "return"
      [] r = "loading"   -> "sleep"
      [] r = "other"     -> "sleep"
      [] r = "refused"   -> "sleep"
      [] r = "nonjson"   -> "sleep"
      [] r = "nonobject" -> "raise"

\* _wait_for_health, loop body with the child alive: one GET /health.
PollHealth(s) ==
    /\ pc[s] = "poll"
    /\ polls[s] < MaxHealthPolls
    /\ proc[s] # "exited"
    /\ \E r \in HealthResponses :
         CASE HealthOutcome(r) = "return" ->
                /\ pc' = [pc EXCEPT ![s] = "healthy"]
                /\ UNCHANGED <<locked, holders, polls, err>>
           [] HealthOutcome(r) = "sleep" ->
                /\ polls' = [polls EXCEPT ![s] = @ + 1]
                /\ UNCHANGED <<pc, locked, holders, err>>
           [] HealthOutcome(r) = "raise" ->
                /\ EnterExceptHandler(s)
                /\ err' = [err EXCEPT ![s] = "AttributeError"]
                /\ UNCHANGED polls
    /\ UNCHANGED <<kind, proc, bodyExc, orphans, outer>>
    /\ UNCHANGED notEngine

\* Mutant of TimeoutTerminate: terminate() and the raise right after it,
\* without wait(timeout=10) and without kill().
TimeoutTerminate_NoWait(s) ==
    /\ pc[s] = "poll"
    /\ polls[s] >= MaxHealthPolls
    /\ proc' = [proc EXCEPT ![s] = IF @ = "running" THEN "terminating" ELSE @]
    /\ pc' = [pc EXCEPT ![s] = "timeout_raise"]
    /\ UNCHANGED <<kind, locked, holders, polls, bodyExc, orphans, err, outer>>
    /\ UNCHANGED notEngine

\* _wait_for_health after the loop: self._process.terminate().
TimeoutTerminate(s) ==
    /\ pc[s] = "poll"
    /\ polls[s] >= MaxHealthPolls
    /\ proc' = [proc EXCEPT ![s] = IF @ = "running" THEN "terminating" ELSE @]
    /\ pc' = [pc EXCEPT ![s] = "timeout_wait"]
    /\ UNCHANGED <<kind, locked, holders, polls, bodyExc, orphans, err, outer>>
    /\ UNCHANGED notEngine

\* self._process.wait(timeout=10) returned: the child has exited.
TimeoutWaitExited(s) ==
    /\ pc[s] = "timeout_wait"
    /\ proc[s] = "exited"
    /\ pc' = [pc EXCEPT ![s] = "timeout_raise"]
    /\ UNCHANGED <<kind, locked, holders, proc, polls, bodyExc, orphans, err, outer>>
    /\ UNCHANGED notEngine

\* subprocess.TimeoutExpired: self._process.kill(); self._process.wait().
TimeoutKill(s) ==
    /\ pc[s] = "timeout_wait"
    /\ proc[s] = "terminating"
    /\ proc' = [proc EXCEPT ![s] = "exited"]
    /\ pc' = [pc EXCEPT ![s] = "timeout_raise"]
    /\ UNCHANGED <<kind, locked, holders, polls, bodyExc, orphans, err, outer>>
    /\ UNCHANGED notEngine

\* raise InferenceError("... did not become healthy ..."), through the handler.
TimeoutRaise(s) ==
    /\ pc[s] = "timeout_raise"
    /\ EnterExceptHandler(s)
    /\ err' = [err EXCEPT ![s] = DidNotBecomeHealthy]
    /\ UNCHANGED <<kind, proc, polls, bodyExc, orphans, outer>>
    /\ UNCHANGED notEngine

(***************************************************************************)
(* The body of the with-statement and __exit__                             *)
(***************************************************************************)
\* The body ends, normally or by an exception: __exit__ is called.
BodyEnds(s) ==
    /\ InBody(s)
    /\ \E e \in BOOLEAN : bodyExc' = [bodyExc EXCEPT ![s] = e]
    /\ pc' = [pc EXCEPT ![s] = "exit_stop"]
    /\ UNCHANGED <<kind, locked, holders, proc, polls, orphans, err, outer>>
    /\ UNCHANGED notEngine

\* _stop: poll() is not None, nothing to terminate.
StopSkip(s) ==
    /\ pc[s] = "exit_stop"
    /\ proc[s] = "exited"
    /\ pc' = [pc EXCEPT ![s] = "exit_release"]
    /\ UNCHANGED <<kind, locked, holders, proc, polls, bodyExc, orphans, err, outer>>
    /\ UNCHANGED notEngine

\* _stop: self._process.terminate().
StopTerminate(s) ==
    /\ pc[s] = "exit_stop"
    /\ proc[s] = "running"
    /\ proc' = [proc EXCEPT ![s] = "terminating"]
    /\ pc' = [pc EXCEPT ![s] = "stop_wait"]
    /\ UNCHANGED <<kind, locked, holders, polls, bodyExc, orphans, err, outer>>
    /\ UNCHANGED notEngine

\* _stop: wait(timeout=10) returned.
StopWaitExited(s) ==
    /\ pc[s] = "stop_wait"
    /\ proc[s] = "exited"
    /\ pc' = [pc EXCEPT ![s] = "exit_release"]
    /\ UNCHANGED <<kind, locked, holders, proc, polls, bodyExc, orphans, err, outer>>
    /\ UNCHANGED notEngine

\* _stop: TimeoutExpired, kill() and wait().
StopKill(s) ==
    /\ pc[s] = "stop_wait"
    /\ proc[s] = "terminating"
    /\ proc' = [proc EXCEPT ![s] = "exited"]
    /\ pc' = [pc EXCEPT ![s] = "exit_release"]
    /\ UNCHANGED <<kind, locked, holders, polls, bodyExc, orphans, err, outer>>
    /\ UNCHANGED notEngine

\* Mutant of ExitFinallyAfterRaise: __exit__ without try/finally, the
\* exception of _stop skips the release.
ExitFinallyAfterRaise_NoRelease(s) ==
    /\ pc' = [pc EXCEPT ![s] = "exit_raised"]
    /\ UNCHANGED <<locked, holders>>

\* __exit__: `finally: GPU_LOCK.release()` when _stop raised; the exception of
\* _stop then leaves __exit__.
ExitFinallyAfterRaise(s) ==
    /\ LockRelease(s)
    /\ pc' = [pc EXCEPT ![s] = "exit_raised"]

\* _stop raises (an OSError closing the log file, an interrupt while waiting).
StopRaises(s) ==
    /\ pc[s] \in {"exit_stop", "stop_wait"}
    /\ ExitFinallyAfterRaise(s)
    /\ UNCHANGED <<kind, proc, polls, bodyExc, orphans, err, outer>>
    /\ UNCHANGED notEngine

\* __exit__: `finally: GPU_LOCK.release()` after _stop returned.
ExitRelease(s) ==
    /\ pc[s] = "exit_release"
    /\ LockRelease(s)
    /\ pc' = [pc EXCEPT ![s] = "closed"]
    /\ UNCHANGED <<kind, proc, polls, bodyExc, orphans, err, outer>>
    /\ UNCHANGED notEngine

(***************************************************************************)
(* Environment of the scopes                                               *)
(***************************************************************************)
\* The llama-server child exits: on its own (bad model path, out of memory)
\* or in answer to SIGTERM.
ChildExits(s) ==
    /\ proc[s] \in Live
    /\ proc' = [proc EXCEPT ![s] = "exited"]
    /\ UNCHANGED <<pc, kind, locked, holders, polls, bodyExc, orphans, err, outer>>
    /\ UNCHANGED notEngine

\* The with-statement is over (returned or raised) and the engine object is
\* dropped; a child it never stopped keeps running without an owner.
ScopeGone(s) ==
    /\ pc[s] \in {"pre_raised", "enter_raised", "closed", "exit_raised"}
    /\ proc[s] \in Live => orphans < MaxOrphans
    /\ orphans' = IF proc[s] \in Live THEN orphans + 1 ELSE orphans
    /\ proc' = [proc EXCEPT ![s] = "none"]
    /\ pc' = [pc EXCEPT ![s] = "idle"]
    /\ bodyExc' = [bodyExc EXCEPT ![s] = FALSE]
    /\ polls' = [polls EXCEPT ![s] = 0]
    /\ err' = [err EXCEPT ![s] = "none"]
    /\ outer' = [outer EXCEPT ![s] = 0]
    /\ UNCHANGED <<kind, locked, holders>>
    /\ UNCHANGED notEngine

\* A child without an owner exits.
OrphanExits ==
    /\ orphans > 0
    /\ orphans' = orphans - 1
    /\ UNCHANGED <<pc, kind, locked, holders, proc, polls, bodyExc, err, outer>>
    /\ UNCHANGED notEngine

EngineIdle ==
    /\ pc = [s \in Scopes |-> "idle"]
    /\ kind = [s \in Scopes |-> "llava"]
    /\ locked = FALSE
    /\ holders = {}
    /\ proc = [s \in Scopes |-> "none"]
    /\ polls = [s \in Scopes |-> 0]
    /\ bodyExc = [s \in Scopes |-> FALSE]
    /\ orphans = 0
    /\ err = [s \in Scopes |-> "none"]
    /\ outer = [s \in Scopes |-> 0]

(***************************************************************************)
(* Files of the work directory touched by one atomic write                 *)
(*                                                                         *)
(* A content is [doc, n]: the first n chunks of payload doc; payload 0 is  *)
(* whatever the destination held before the first save of the model, and   *)
(* payload k > 0 is the data of the k-th call of save.  fs holds           *)
(*   dest     the destination as a reader sees it (through the page cache) *)
(*   destDur  the destination as it is on stable storage                   *)
(*   tmp      the temporary file of the save in progress, as a reader sees *)
(*            it                                                           *)
(*   tmpDurN  chunks of the temporary file's data that are on stable       *)
(*            storage                                                      *)
(*   pending  the rename onto the destination is not yet on stable storage *)
(*   pendN    chunks of the renamed file's data that are on stable storage *)
(*   leftover a file with the atomic-write suffix that no save owns        *)
(***************************************************************************)
PayloadChunks == 2    \* chunks of one payload
MaxSaves == 2         \* calls of save in one behaviour

Absent == [doc |-> 0, n |-> 0 - 1]
Complete(k) == [doc |-> k, n |-> PayloadChunks]

Targets == {"checkpoint", "cache"}

StoreIdle ==
    /\ fs = [dest |-> Absent, destDur |-> Absent, tmp |-> Absent, tmpDurN |-> 0,
             pending |-> FALSE, pendN |-> 0, leftover |-> FALSE]
    /\ wr = [pc |-> "idle", target |-> "checkpoint", fdOpen |-> FALSE, saves |-> 0,
             prevVol |-> Absent, prevDur |-> Absent, died |-> "no"]

(***************************************************************************)
(* Python and JSON values                                                  *)
(*                                                                         *)
(* A Python value is a tagged tuple: <<"none">>, <<"str", s>>,             *)
(* <<"int", n>>, <<"bool", b>>, <<"list", seq>>, <<"dict", function>>.     *)
(* A JSON value likewise: <<"null">>, <<"string", s>>, <<"number", n>>,    *)
(* <<"true">>, <<"false">>, <<"array", seq>>, <<"object", function>>.      *)
(***************************************************************************)
PyNone == <<"none">>
PyStr(s) == <<"str", s>>
PyInt(n) == <<"int", n>>
PyBool(b) == <<"bool", b>>
PyList(q) == <<"list", q>>
PyDict(f) == <<"dict", f>>

RECURSIVE JsonDumps(_)
\* json.dumps: the JSON text of a Python value, as the JSON value it denotes.
JsonDumps(v) ==
    CASE v[1] = "none" -> <<"null">>
      [] v[1] = "str"  -> <<"string", v[2]>>
      [] v[1] = "int"  -> <<"number", v[2]>>
      [] v[1] = "bool" -> IF v[2] THEN <<"true">> ELSE <<"false">>
      [] v[1] = "list" -> <<"array", [i \in DOMAIN v[2] |-> JsonDumps(v[2][i])]>>
      [] v[1] = "dict" -> <<"object", [k \in DOMAIN v[2] |-> JsonDumps(v[2][k])]>>

RECURSIVE JsonLoads(_)
\* json.loads: the Python value of a JSON value.
JsonLoads(j) ==
    CASE j[1] = "null"   -> PyNone
      [] j[1] = "string" -> PyStr(j[2])
      [] j[1] = "number" -> PyInt(j[2])
      [] j[1] = "true"   -> PyBool(TRUE)
      [] j[1] = "false"  -> PyBool(FALSE)
      [] j[1] = "array"  -> PyList([i \in DOMAIN j[2] |-> JsonLoads(j[2][i])])
      [] j[1] = "object" -> PyDict([k \in DOMAIN j[2] |-> JsonLoads(j[2][k])])

(***************************************************************************)
(* PipelineCheckpoint                                                      *)
(***************************************************************************)
\* The fields of the dataclass; the first two have no default.
RequiredFields == {"source_file", "vibe"}
OutputFields == {"proxy_path", "keyframe_count", "dialogue_event_count",
                 "inference_complete", "manifest_path", "assembly_manifest_path"}
Fields == RequiredFields \cup {"stages_complete"} \cup OutputFields

\* stages_complete: list = field(default_factory=list); every output: None.
FieldDefault(f) == IF f = "stages_complete" THEN PyList(<<>>) ELSE PyNone

\* PipelineCheckpoint(source_file=..., vibe=...)
FreshCheckpoint(src, vb) ==
    [f \in Fields |-> CASE f = "source_file" -> PyStr(src)
                        [] f = "vibe" -> PyStr(vb)
                        [] OTHER -> FieldDefault(f)]

\* is_stage_complete: `stage in self.stages_complete`
IsStageComplete(c, stage) ==
    \E i \in DOMAIN c.stages_complete[2] : c.stages_complete[2][i] = PyStr(stage)

\* Mutant of MarkStageComplete: the stage is appended without the membership
\* test.
MarkStageComplete_AlwaysAppend(c, stage) ==
    [c EXCEPT !.stages_complete = PyList(Append(@[2], PyStr(stage)))]

\* mark_stage_complete: append unless present.
MarkStageComplete(c, stage) ==
    IF IsStageComplete(c, stage)
    THEN c
    ELSE [c EXCEPT !.stages_complete = PyList(Append(@[2], PyStr(stage)))]

\* dataclasses.asdict: the dict of the dataclass fields (an attribute that is
\* no field of the dataclass is not part of it).
Asdict(c) == PyDict([f \in Fields |-> c[f]])

\* Mutant of CheckpointFromDict: only the required keys are taken over.
CheckpointFromDict_RequiredOnly(d) ==
    [f \in Fields |-> IF f \in RequiredFields THEN d[f] ELSE FieldDefault(f)]

\* PipelineCheckpoint(**data) for a dict whose keys the constructor accepts.
CheckpointFromDict(d) ==
    [f \in Fields |-> IF f \in DOMAIN d THEN d[f] ELSE FieldDefault(f)]

\* PipelineCheckpoint(**data) raises TypeError: data is no mapping, a key is
\* no field, or a field without default is missing.
ConstructorRaises(data) ==
    \/ data[1] # "dict"
    \/ ~(DOMAIN data[2] \subseteq Fields)
    \/ ~(RequiredFields \subseteq DOMAIN data[2])

(***************************************************************************)
(* The checkpoint file as load_checkpoint reads it.  A file is             *)
(*   [kind |-> "absent"]   no file                                         *)
(*   [kind |-> "nonutf8"]  bytes that are not valid UTF-8                  *)
(*   [kind |-> "invalid"]  text that is not JSON                           *)
(*   [kind |-> "json"]     JSON text, val the JSON value it denotes        *)
(***************************************************************************)
NoFile == [kind |-> "absent", val |-> <<"null">>]
NonUtf8File == [kind |-> "nonutf8", val |-> <<"null">>]
InvalidJsonFile == [kind |-> "invalid", val |-> <<"null">>]
JsonFile(j) == [kind |-> "json", val |-> j]

\* Results of load_checkpoint: a checkpoint, None, or an exception.
Loaded(c) == [status |-> "ckpt", value |-> c]
LoadedNone == [status |-> "none", value |-> FreshCheckpoint("", "")]
LoadRaised == [status |-> "raised", value |-> FreshCheckpoint("", "")]
NotLoaded == [status |-> "unset", value |-> FreshCheckpoint("", "")]

\* load_checkpoint
LoadCheckpoint(file) ==
    CASE file.kind = "absent"  -> LoadedNone   \* not ckpt_path.exists()
      [] file.kind = "nonutf8" -> LoadRaised   \* read_text: UnicodeDecodeError, not caught
      [] file.kind = "invalid" -> LoadedNone   \* json.JSONDecodeError
      [] file.kind = "json"    ->
           IF ConstructorRaises(JsonLoads(file.val))
           THEN LoadedNone                     \* TypeError
           ELSE Loaded(CheckpointFromDict(JsonLoads(file.val)[2]))

\* save_checkpoint, from the call to the return: the file holds
\* json.dumps(asdict(checkpoint), indent=2).encode("utf-8").
SavedFile(c) == JsonFile(JsonDumps(Asdict(c)))

Sources == {"/films/film.mkv", "/films/film.mp4"}
Vibes == {"action", "drama"}

\* A non-null value for each stage output, of the field's declared type.
OutputValue(f) ==
    CASE f = "proxy_path" -> PyStr("film_cinecut_work/film_proxy.mp4")
      [] f = "keyframe_count" -> PyInt(3)
      [] f = "dialogue_event_count" -> PyInt(55)
      [] f = "inference_complete" -> PyBool(TRUE)
      [] f = "manifest_path" -> PyStr("film_cinecut_work/TRAILER_MANIFEST.json")
      [] f = "assembly_manifest_path" -> PyStr("film_cinecut_work/ASSEMBLY_MANIFEST.json")

MaxMarks == 2         \* calls of mark_stage_complete per stage name

MarkedStages == {"proxy", "subtitles"}

\* No call of mark_stage_complete yet.
NoMarks == [st \in MarkedStages |-> 0]

CkptIdle ==
    ck = [mem |-> FreshCheckpoint("", ""), file |-> NoFile, loaded |-> NotLoaded,
          saved |-> FreshCheckpoint("", ""),
               prev |-> FreshCheckpoint("", ""), saves |-> 0, marks |-> NoMarks]

(***************************************************************************)
(* Paths, and the inference result cache (inference/cache.py)              *)
(***************************************************************************)
MaxMtime == 2         \* modification times a source file goes through

\* A pathlib.Path, by its parent, stem and suffix.
Videos ==
    {[parent |-> "/films", stem |-> "film", suffix |-> ".mkv"],
     [parent |-> "/films", stem |-> "film", suffix |-> ".mp4"],
     [parent |-> "/films", stem |-> "other", suffix |-> ".mkv"]}

\* str(path)
Str(p) == p.parent \o "/" \o p.stem \o p.suffix

\* _setup_work_dir(source): <parent>/<stem>_cinecut_work
WorkDir(p) == p.parent \o "/" \o p.stem \o "_cinecut_work"

\* _cache_path(source_file, work_dir): <work_dir>/<stem>.scenedesc.msgpack
CachePath(p, dir) == dir \o "/" \o p.stem \o ".scenedesc.msgpack"

CachePaths == {CachePath(p, WorkDir(p)) : p \in Videos}

Mtimes == 1..MaxMtime
Sizes == {10, 20}

\* Inference results: (KeyframeRecord, SceneDescription | None) pairs.
RecordFields == {"timestamp_s", "frame_path", "source"}
DescriptionFields == {"visual_content", "mood", "action", "setting"}

\* KeyframeRecord(timestamp_s, frame_path, source)
KeyframeRecord(ts, path, src) == [timestamp_s |-> ts, frame_path |-> path, source |-> src]

\* SceneDescription(visual_content, mood, action, setting), or None
SceneDescription(v, m, a, s) ==
    <<"desc", [visual_content |-> v, mood |-> m, action |-> a, setting |-> s]>>

ResultLists ==
    {<<>>,
     << <<KeyframeRecord(1, "keyframes/frame_0001.jpg", "subtitle_midpoint"), PyNone>>,
        <<KeyframeRecord(2, "keyframes/frame_0002.jpg", "scene_change"),
          SceneDescription("a car", "tense", "chase", "street")>> >>}

\* "description": asdict(desc) if desc is not None else None
PackDescription(desc) ==
    IF desc = PyNone THEN <<"nil">>
    ELSE <<"map", [f \in DescriptionFields |-> desc[2][f]]>>

\* An absent description rebuilt as an empty SceneDescription (a weakening).
UnpackDescription_Placeholder(d) ==
    IF d = <<"nil">> THEN SceneDescription("", "", "", "") ELSE <<"desc", d[2]>>

\* SceneDescription(**desc_data) if desc_data is not None else None
UnpackDescription(d) ==
    IF d = <<"nil">> THEN PyNone ELSE <<"desc", [f \in DescriptionFields |-> d[2][f]]>>

\* The "results" list of the payload built by save_cache.
PackResults(results) ==
    [i \in 1..Len(results) |->
        [record |-> <<"map", [f \in RecordFields |-> results[i][1][f]]>>,
         description |-> PackDescription(results[i][2])]]

\* The list load_cache rebuilds from the payload.
UnpackResults(items) ==
    [i \in 1..Len(items) |->
        <<[f \in RecordFields |-> items[i].record[2][f]],
          UnpackDescription(items[i].description)>>]

NoPayload == [metadata |-> [source_file |-> "", mtime |-> 0, size |-> 0], results |-> <<>>]
NoCacheFile == [kind |-> "absent", payload |-> NoPayload]
CorruptCacheFile == [kind |-> "corrupt", payload |-> NoPayload]

\* Cache files that unpack but have another structure: the payload is a list,
\* the payload has no "metadata" key, a record has a key KeyframeRecord does
\* not take (its metadata being that of the stat st).
NotMapCacheFile == [kind |-> "notmap", payload |-> NoPayload]
NoMetaCacheFile == [kind |-> "nometa", payload |-> NoPayload]
BadRecordCacheFile(st) ==
    [kind |-> "badrecord",
     payload |-> [metadata |-> [source_file |-> "", mtime |-> st.mtime, size |-> st.size],
                  results |-> <<>>]]

\* The stat of a source file that is not there: source_file.stat() raises.
NoStat == [mtime |-> 0, size |-> 0]

\* The cache file save_cache(results, source_file, work_dir) leaves.
PackedCacheFile(results, p, st) ==
    [kind |-> "msgpack",
     payload |-> [metadata |-> [source_file |-> Str(p), mtime |-> st.mtime, size |-> st.size],
                  results |-> PackResults(results)]]

\* The test of load_cache on the stored metadata: mtime only (a weakening).
MetaMatches_MtimeOnly(meta, st) == meta.mtime = st.mtime

\* The test of load_cache on the stored metadata.
MetaMatches(meta, st) == meta.mtime = st.mtime /\ meta.size = st.size

CacheNone == [status |-> "none", value |-> <<>>]
CacheRaised == [status |-> "raised", value |-> <<>>]
CacheException(e) == [status |-> "exception", value |-> e]
CacheHit(r) == [status |-> "results", value |-> r]

\* load_cache up to its except clause, on the cache file f and the stat st
\* of source_file: what it returns, or the exception raised in the try body.
LoadCacheTry(f, st) ==
    IF f.kind = "absent" THEN CacheNone
    ELSE IF f.kind = "corrupt" THEN CacheException("UnpackException")
    ELSE IF f.kind = "notmap" THEN CacheException("TypeError")
    ELSE IF f.kind = "nometa" THEN CacheException("KeyError")
    ELSE IF st = NoStat THEN CacheException("FileNotFoundError")
    ELSE IF ~MetaMatches(f.payload.metadata, st) THEN CacheNone
    ELSE IF f.kind = "badrecord" THEN CacheException("TypeError")
    ELSE CacheHit(UnpackResults(f.payload.results))

\* An except clause for the unpacking errors only (a weakening).
LoadCacheCatches_UnpackOnly(e) == e = "UnpackException"

\* `except Exception`: every exception the try body raises is an Exception.
LoadCacheCatches(e) ==
    e \in {"UnpackException", "TypeError", "KeyError", "FileNotFoundError"}

\* load_cache(source_file, work_dir) on the files `files` and the stat `st`
\* of source_file.
LoadCache(p, dir, files, st) ==
    LET r == LoadCacheTry(files[CachePath(p, dir)], st) IN
    IF r.status # "exception" THEN r
    ELSE IF LoadCacheCatches(r.value) THEN CacheNone
    ELSE CacheRaised

NoCacheLoad == [status |-> "unset", value |-> <<>>, src |-> CHOOSE p \in Videos : TRUE]

CacheIdle ==
    ca = [stat |-> [p \in Videos |-> [mtime |-> 1, size |-> 10]],
          files |-> [c \in CachePaths |-> NoCacheFile],
          saved |-> [c \in CachePaths |-> <<>>],
          basis |-> [c \in CachePaths |-> 0],
          out |-> NoCacheLoad]

(***************************************************************************)
(* One run of the orchestrator (cli.py main): data                         *)
(***************************************************************************)
\* The stage names main marks complete, in the order main runs them.
StageOrder ==
    <<"proxy", "subtitles", "keyframes", "structural", "narrative", "assembly", "music">>

\* The stages main runs after LLaVA inference.
AfterInference == {"structural", "narrative", "assembly", "music"}

\* The output field main sets when it runs a stage ("" when it sets none, or
\* sets an attribute that is no field of PipelineCheckpoint).
StageOutput(st) ==
    CASE st = "proxy" -> "proxy_path"
      [] st = "subtitles" -> "dialogue_event_count"
      [] st = "keyframes" -> "keyframe_count"
      [] st = "narrative" -> "manifest_path"
      [] st = "assembly" -> "assembly_manifest_path"
      [] OTHER -> ""

\* ckpt after main ran stage st: its output set, the stage marked complete.
RunStage(c, st) ==
    MarkStageComplete(
        [f \in Fields |-> IF f = StageOutput(st) THEN OutputValue(f) ELSE c[f]], st)

\* The checkpoint main holds after the first k stages of a fresh run.
RECURSIVE CheckpointAfter(_, _, _)
CheckpointAfter(src, vb, k) ==
    IF k = 0 THEN FreshCheckpoint(src, vb)
    ELSE LET c == RunStage(CheckpointAfter(src, vb, k - 1), StageOrder[k]) IN
         IF k >= 4 THEN [c EXCEPT !.inference_complete = PyBool(TRUE)] ELSE c

\* The stages the cascade reset of stage 4 names.
CascadeStages == {"narrative", "assembly"}

\* Mutant of CascadeReset: the named stages are removed, their output
\* references stay.
CascadeReset_KeepsOutput(c) ==
    [c EXCEPT
        !.stages_complete = PyList(SelectSeq(@[2], LAMBDA e : e[2] \notin CascadeStages))]

\* The cascade reset of stage 4 on ckpt: each named stage that is complete is
\* removed and its output reference cleared.
CascadeReset(c) ==
    [c EXCEPT
        !.stages_complete = PyList(SelectSeq(@[2], LAMBDA e : e[2] \notin CascadeStages)),
        !.manifest_path =
            IF IsStageComplete(c, "narrative") THEN PyNone ELSE @,
        !.assembly_manifest_path =
            IF IsStageComplete(c, "assembly") THEN PyNone ELSE @]

\* ckpt.source_file != str(video): never stale (a weakening).
IsStale_Never(c, video) == FALSE

\* ckpt.source_file != str(video)
IsStale(c, video) == c.source_file # PyStr(Str(video))

RunIdle ==
    run = [pc |-> "off", video |-> CHOOSE p \in Videos : TRUE, vibe |-> "",
           loaded |-> NotLoaded, attrs |-> {}, ran |-> {}, skipped |-> {},
           miss |-> FALSE, recomputed |-> FALSE, redone |-> {}]

(***************************************************************************)
(* wait_for_vram with a clock, and the encode step: data                   *)
(***************************************************************************)
MaxTimeout == 3       \* largest timeout_s, in ticks of the clock
MaxPollInterval == 2  \* largest poll_interval_s, in ticks of the clock

\* min_free_mib arguments: the default and a larger one.
MinFrees == {VRAM_MINIMUM_MIB, 8000}

VramIdle ==
    vw = [pc |-> "off", now |-> 0, deadline |-> 0, poll |-> 1, left |-> 0,
          minFree |-> VRAM_MINIMUM_MIB, free |-> 0, heldSince |-> 0 - 1]

EncodeIdle == enc = "idle"

InitEngine ==
    EngineIdle /\ StoreIdle /\ CkptIdle /\ CacheIdle /\ RunIdle /\ VramIdle /\ EncodeIdle

\* conform_manifest starts an FFmpeg encode; it acquires no lock.
ConformEncodeStart ==
    /\ enc = "idle"
    /\ enc' = "encoding"
    /\ UNCHANGED notEncode

\* The FFmpeg encode ends.
ConformEncodeEnd ==
    /\ enc = "encoding"
    /\ enc' = "idle"
    /\ UNCHANGED notEncode

NextEngine ==
    \/ \E s \in Scopes :
         \/ Enter(s)
         \/ PreflightLlava(s)
         \/ WaitForVramPoll(s)
         \/ WaitForVramTimeout(s)
         \/ Acquire(s)
         \/ StartSpawn(s)
         \/ StartSpawnFails(s)
         \/ PollChildExited(s)
         \/ PollHealth(s)
         \/ TimeoutTerminate(s)
         \/ TimeoutWaitExited(s)
         \/ TimeoutKill(s)
         \/ TimeoutRaise(s)
         \/ BodyEnds(s)
         \/ StopSkip(s)
         \/ StopTerminate(s)
         \/ StopWaitExited(s)
         \/ StopKill(s)
         \/ StopRaises(s)
         \/ ExitRelease(s)
         \/ ChildExits(s)
         \/ ScopeGone(s)
    \/ OrphanExits
    \/ ConformEncodeStart
    \/ ConformEncodeEnd

SpecEngine == InitEngine /\ [][NextEngine]_vars

\* The steps __enter__ takes by itself once called, and those of __exit__.
EnterStep(s) ==
    \/ PreflightLlava(s)
    \/ WaitForVramPoll(s)
    \/ WaitForVramTimeout(s)
    \/ Acquire(s)
    \/ StartSpawn(s)
    \/ StartSpawnFails(s)
    \/ PollChildExited(s)
    \/ PollHealth(s)
    \/ TimeoutTerminate(s)
    \/ TimeoutWaitExited(s)
    \/ TimeoutKill(s)
    \/ TimeoutRaise(s)

ExitStep(s) ==
    \/ StopSkip(s)
    \/ StopTerminate(s)
    \/ StopWaitExited(s)
    \/ StopKill(s)
    \/ ExitRelease(s)

\* SpecEngine with every thread inside __enter__ or __exit__ scheduled again
\* and again; the body of a with-statement may last for ever.
SpecEngineLive ==
    /\ SpecEngine
    /\ \A s \in Scopes : WF_vars(EnterStep(s)) /\ WF_vars(ExitStep(s))

(***************************************************************************)
(* Claims about the engine scopes (checked under SpecEngine)               *)
(***************************************************************************)
\* C1: at most one scope holds GPU_LOCK at any instant and at most one
\* llama-server process is alive at any instant (the lifetimes of two servers
\* never overlap).
C1_OneHolderOneLiveServer ==
    /\ Cardinality(holders) <= 1
    /\ LiveServers <= 1

\* C2: once __enter__ has raised after the pre-flight, the lock is not held
\* for the scope and the child the scope spawned, if any, is not running.
C2_EnterRaisedLockFreeChildGone ==
    \A s \in Scopes :
        pc[s] = "enter_raised" => (s \notin holders /\ proc[s] \notin Live)

\* C3: __exit__ shuts the server down and then releases GPU_LOCK: the release
\* after a returning _stop happens with the child no longer alive, and after
\* __exit__ has returned or raised the lock is not held for the scope (nor
\* left locked with no holder), also when _stop raised.
C3_ExitStopsThenAlwaysReleases ==
    /\ \A s \in Scopes :
         /\ pc[s] \in {"closed", "exit_raised"} => s \notin holders
         /\ pc[s] \in {"exit_release", "closed"} => proc[s] \notin Live
    /\ locked => holders # {}

\* C3 witness: _stop raised with the child still alive, __exit__ has raised
\* and the lock is free.
C3_Witness ==
    \E s \in Scopes : pc[s] = "exit_raised" /\ proc[s] \in Live /\ ~locked

\* C14: the pre-flight raises exactly for a failed query or a reading below
\* VRAM_MINIMUM_MIB, after one query and no polling; LlavaEngine.__enter__
\* then has raised with GPU_LOCK not acquired by it and no child spawned.
C14_PreflightFailsFast ==
    /\ CheckVramRaises(VRAM_MINIMUM_MIB - 1)
    /\ ~CheckVramRaises(VRAM_MINIMUM_MIB)
    /\ \A s \in Scopes :
         (pc[s] = "pre_raised" /\ kind[s] = "llava") =>
             /\ s \notin holders
             /\ proc[s] = "none"
             /\ polls[s] = 0

\* The positions inside __enter__.
Entering == {"preflight", "acquire", "start", "poll", "timeout_wait", "timeout_raise"}

\* C15 (checked under SpecEngineLive): a call of __enter__ eventually returns
\* or raises, whatever the other scopes do.
C15_EnterTerminates ==
    \A s \in Scopes : (pc[s] \in Entering) ~> (pc[s] \notin Entering)

\* C16: no encode step runs while a model server is alive or while GPU_LOCK
\* is held.
C16_EncodeExcludesServers ==
    enc = "encoding" => (LiveServers = 0 /\ orphans = 0 /\ ~locked)

C22_TimeoutStopsBeforeRaising ==
    [][\A s \in Scopes :
          /\ (pc[s] = "poll" /\ polls[s] >= MaxHealthPolls /\ pc'[s] # pc[s]) =>
                 /\ pc'[s] = "timeout_wait"
                 /\ proc[s] = "running" => proc'[s] = "terminating"
          /\ (pc[s] = "timeout_wait" /\ pc'[s] # pc[s]) =>
                 /\ pc'[s] = "timeout_raise"
                 /\ proc'[s] = "exited"
                 /\ proc[s] = "exited" => proc'[s] = proc[s]
          /\ pc'[s] = "timeout_raise" => proc'[s] = "exited"
          /\ err'[s] = DidNotBecomeHealthy =>
                 (proc'[s] = "exited" /\ s \notin holders')]_vars

\* C22 witness: the timeout error has been raised after the deadline, the
\* child has exited and no server is alive.
C22_Witness ==
    \E s \in Scopes :
        /\ pc[s] = "enter_raised"
        /\ err[s] = DidNotBecomeHealthy
        /\ polls[s] = MaxHealthPolls
        /\ proc[s] = "exited"
        /\ LiveServers = 0

\* C23: a scope entered inside the with-body of an open scope, whose thread
\* holds GPU_LOCK, never holds the lock itself and never has a server: it is
\* in its pre-flight, has raised from it, or waits in acquire; the lock has
\* one holder at most, and acquire returns from a free lock only, whoever
\* the caller.
C23_LockNotReentrant ==
    [][/\ \A s \in Scopes :
              outer'[s] # 0 =>
                  /\ pc'[outer'[s]] = "healthy"
                  /\ outer'[s] \in holders'
                  /\ s \notin holders'
                  /\ proc'[s] = "none"
                  /\ pc'[s] \in {"preflight", "pre_raised", "acquire"}
       /\ Cardinality(holders') <= 1
       /\ \A s \in Scopes : (s \notin holders /\ s \in holders') => ~locked]_vars

\* C23 witness: a scope entered inside the body of an open scope, whose
\* server runs, has passed its pre-flight and waits in acquire.
C23_Witness ==
    \E s \in Scopes :
        /\ outer[s] # 0
        /\ pc[s] = "acquire"
        /\ proc[outer[s]] = "running"
        /\ holders = {outer[s]}

\* C24: one iteration of the poll loop with the child alive either reports
\* the server healthy or goes on to the next iteration; it reports healthy
\* for the response 200 / JSON object / status "ok" only, and for every other
\* response or failure of the request polling continues.
C24_OnlyOkIsHealthy ==
    [][\A s \in Scopes :
          (/\ pc[s] = "poll"
           /\ polls[s] < MaxHealthPolls
           /\ proc[s] # "exited"
           /\ <<pc'[s], polls'[s]>> # <<pc[s], polls[s]>>) =>
              /\ \/ pc'[s] = "healthy"
                 \/ pc'[s] = "poll" /\ polls'[s] = polls[s] + 1
              /\ \A r \in HealthResponses :
                     HealthOutcome(r) = (IF r = "ok" THEN "return" ELSE "sleep")]_vars

\* C25: whenever a llama-server process spawned by a scope is running, the
\* lock is held for that scope; no server runs without its scope.
C25_RunningServerHoldsLock ==
    /\ \A s \in Scopes : proc[s] \in Live => (locked /\ s \in holders)
    /\ orphans = 0

\* C26: __enter__ goes through the memory pre-flight, the acquisition of
\* GPU_LOCK, the spawn and the health polling in this order: the wait for the
\* lock is entered from the pre-flight only, the spawn comes with the lock
\* held, polling with the child spawned, and control returns from polling
\* with the lock held; no memory query is made by a scope that holds the lock.
C26_EnterOrder ==
    [][\A s \in Scopes :
          /\ (pc'[s] = "acquire" /\ pc[s] # "acquire") =>
                 (pc[s] = "preflight" /\ s \notin holders')
          /\ (pc'[s] = "start" /\ pc[s] # "start") =>
                 (pc[s] = "acquire" /\ s \in holders' /\ proc'[s] = "none")
          /\ (pc'[s] = "poll" /\ pc[s] # "poll") =>
                 (pc[s] = "start" /\ s \in holders' /\ proc'[s] = "running")
          /\ (pc'[s] = "healthy" /\ pc[s] # "healthy") =>
                 (pc[s] = "poll" /\ s \in holders' /\ locked')
          /\ pc'[s] = "preflight" => s \notin holders']_vars

\* C26 witness: a TextEngine scope has returned from __enter__ with the lock
\* held, and a LlavaEngine scope of another thread, admitted by its memory
\* reading, waits for the lock.
C26_Witness ==
    \E s, u \in Scopes :
        /\ pc[s] = "healthy"
        /\ kind[s] = "text"
        /\ holders = {s}
        /\ pc[u] = "acquire"
        /\ kind[u] = "llava"
        /\ outer[u] = 0

\* C14 witness: a LlavaEngine pre-flight has raised while another scope holds
\* the lock with its server running.
C14_Witness ==
    \E s, u \in Scopes :
        /\ pc[s] = "pre_raised" /\ kind[s] = "llava"
        /\ pc[u] = "healthy" /\ holders = {u} /\ proc[u] = "running"

(***************************************************************************)
(* save_checkpoint / save_cache: the write sequence                        *)
(*   fd, tmp_path = tempfile.mkstemp(dir=work_dir, suffix=...)             *)
(*   try: os.write; os.fsync; os.close; os.replace                         *)
(*   except Exception: os.close(fd); os.unlink(tmp_path); raise            *)
(* The two functions share it line for line; wr.target says which one the  *)
(* behaviour is about.                                                     *)
(***************************************************************************)
\* save is called: the payload is serialized and mkstemp creates an empty
\* temporary file in the directory of the destination.
SaveMkstemp ==
    /\ wr.pc = "idle"
    /\ wr.saves < MaxSaves
    /\ fs' = [fs EXCEPT !.tmp = [doc |-> wr.saves + 1, n |-> 0], !.tmpDurN = 0]
    /\ wr' = [wr EXCEPT !.pc = "write", !.fdOpen = TRUE, !.saves = @ + 1,
                        !.prevVol = fs.dest, !.prevDur = fs.destDur, !.died = "no"]
    /\ UNCHANGED notStore

\* os.write(fd, data): the kernel copies the data into the file, chunk by chunk.
SaveWrite ==
    /\ wr.pc = "write"
    /\ fs' = [fs EXCEPT !.tmp.n = @ + 1]
    /\ wr' = [wr EXCEPT !.pc = IF fs.tmp.n + 1 = PayloadChunks THEN "fsync" ELSE "write"]
    /\ UNCHANGED notStore

\* Mutant of FsyncTmp: the data is not forced to stable storage.
FsyncTmp_Skipped == fs' = fs

\* os.fsync(fd): all data of the temporary file is on stable storage.
FsyncTmp == fs' = [fs EXCEPT !.tmpDurN = fs.tmp.n]

SaveFsync ==
    /\ wr.pc = "fsync"
    /\ FsyncTmp
    /\ wr' = [wr EXCEPT !.pc = "close"]
    /\ UNCHANGED notStore

\* os.close(fd)
SaveClose ==
    /\ wr.pc = "close"
    /\ wr' = [wr EXCEPT !.pc = "replace", !.fdOpen = FALSE]
    /\ UNCHANGED <<fs, notStore>>

\* os.replace(tmp_path, dest): the destination name now designates the
\* temporary file's data; the rename reaches stable storage later.
ReplaceTmp ==
    fs' = [fs EXCEPT !.dest = fs.tmp, !.tmp = Absent,
                     !.pending = TRUE, !.pendN = fs.tmpDurN]

SaveReplace ==
    /\ wr.pc = "replace"
    /\ ReplaceTmp
    /\ wr' = [wr EXCEPT !.pc = "returned"]
    /\ UNCHANGED notStore

\* The except handler: os.close(fd) raises OSError (EBADF) when the descriptor
\* was already closed, and then os.unlink is not reached.
HandlerRemovesTmp == wr.fdOpen

\* A step of the try block raises (OSError: disk full, I/O error, ...): the
\* handler runs and an exception leaves save.
SaveStepRaises ==
    /\ wr.pc \in {"write", "fsync", "close", "replace"}
    /\ fs' = IF HandlerRemovesTmp
             THEN [fs EXCEPT !.tmp = Absent, !.tmpDurN = 0]
             ELSE [fs EXCEPT !.tmp = Absent, !.tmpDurN = 0, !.leftover = TRUE]
    /\ wr' = [wr EXCEPT !.pc = "raised", !.fdOpen = FALSE]
    /\ UNCHANGED notStore

\* The caller goes on after save returned or raised.
SaveDone ==
    /\ wr.pc \in {"returned", "raised"}
    /\ wr' = [wr EXCEPT !.pc = "idle"]
    /\ UNCHANGED <<fs, notStore>>

(***************************************************************************)
(* The environment of the write: write-back, kill, power loss              *)
(***************************************************************************)
\* The kernel writes back data of the temporary file on its own.  (After the
\* rename nothing is left to write back: os.fsync came before os.replace.)
WriteBackData ==
    /\ fs.tmp # Absent
    /\ fs.tmpDurN < fs.tmp.n
    /\ fs' = [fs EXCEPT !.tmpDurN = @ + 1]
    /\ UNCHANGED <<wr, notStore>>

\* The rename reaches stable storage (the directory is never fsync-ed by the
\* code, the file system commits it when it chooses).
WriteBackRename ==
    /\ fs.pending
    /\ fs' = [fs EXCEPT !.destDur = [doc |-> fs.dest.doc, n |-> fs.pendN],
                        !.pending = FALSE]
    /\ UNCHANGED <<wr, notStore>>

\* The process is killed: open descriptors are closed, files stay as they are.
Kill ==
    /\ wr.pc \in {"write", "fsync", "close", "replace", "returned", "raised"}
    /\ fs' = [fs EXCEPT !.tmp = Absent, !.tmpDurN = 0,
                        !.leftover = @ \/ fs.tmp # Absent]
    /\ wr' = [wr EXCEPT !.pc = "dead", !.fdOpen = FALSE, !.died = "kill"]
    /\ UNCHANGED notStore

\* Power is lost: after the reboot every file is what stable storage holds.
PowerLoss ==
    /\ wr.pc \in {"write", "fsync", "close", "replace", "returned", "raised"}
    /\ \E l \in BOOLEAN :
         /\ l => (fs.tmp # Absent \/ fs.leftover)
         /\ fs' = [fs EXCEPT !.dest = fs.destDur, !.tmp = Absent, !.tmpDurN = 0,
                             !.pending = FALSE, !.pendN = 0, !.leftover = l]
    /\ wr' = [wr EXCEPT !.pc = "dead", !.fdOpen = FALSE, !.died = "power"]
    /\ UNCHANGED notStore

\* The program is started again.
Restart ==
    /\ wr.pc = "dead"
    /\ wr' = [wr EXCEPT !.pc = "idle"]
    /\ UNCHANGED <<fs, notStore>>

\* Before the first save the destination is missing or holds a complete
\* earlier payload, on stable storage.
InitStore ==
    /\ EngineIdle
    /\ VramIdle
    /\ EncodeIdle
    /\ CkptIdle
    /\ CacheIdle
    /\ RunIdle
    /\ \E d \in {Absent, Complete(0)}, tg \in Targets :
         /\ fs = [dest |-> d, destDur |-> d, tmp |-> Absent, tmpDurN |-> 0,
                  pending |-> FALSE, pendN |-> 0, leftover |-> FALSE]
         /\ wr = [pc |-> "idle", target |-> tg, fdOpen |-> FALSE, saves |-> 0,
                  prevVol |-> d, prevDur |-> d, died |-> "no"]

NextStore ==
    \/ SaveMkstemp
    \/ SaveWrite
    \/ SaveFsync
    \/ SaveClose
    \/ SaveReplace
    \/ SaveStepRaises
    \/ SaveDone
    \/ WriteBackData
    \/ WriteBackRename
    \/ Kill
    \/ PowerLoss
    \/ Restart

SpecStore == InitStore /\ [][NextStore]_vars

(***************************************************************************)
(* Claims about the atomic write (checked under SpecStore)                 *)
(***************************************************************************)
\* C4: whatever step of the write sequence a kill or a power loss hits, a
\* reader of the destination sees the complete content from before the save
\* (what was visible then or, after a power loss, what was on stable storage
\* then; no file if there was none) or the complete new payload, never part
\* of a payload.
C4_DestinationOldOrNew ==
    wr.saves > 0 =>
        \/ fs.dest = wr.prevVol
        \/ fs.dest = Complete(wr.saves)
        \/ wr.died = "power" /\ fs.dest = wr.prevDur

\* C4 witness: power was lost after the rename had reached stable storage and
\* the reader sees the complete new payload; the save before it is visible
\* in what the write replaced.
C4_Witness ==
    /\ wr.pc = "dead"
    /\ wr.died = "power"
    /\ wr.saves = 2
    /\ fs.dest = Complete(2)
    /\ wr.prevVol = Complete(1)

\* C17: when save_checkpoint / save_cache returns or raises, the temporary
\* file this call created is gone: a step that ends the call leaves no
\* temporary file in place and adds no file with the atomic-write suffix to
\* the directory.
C17_NoTempFileLeft ==
    [][(wr.pc \in {"write", "fsync", "close", "replace"}
            /\ wr'.pc \in {"returned", "raised"})
         => (fs'.tmp = Absent /\ fs'.leftover = fs.leftover)]_vars

(***************************************************************************)
(* The checkpoint store on every checkpoint value and file state           *)
(***************************************************************************)
MaxCkptSaves == 2     \* calls of save_checkpoint in one behaviour

\* The checkpoint of (src, vb) with exactly the outputs in S set.
CheckpointWith(src, vb, S) ==
    [f \in Fields |-> IF f \in S THEN OutputValue(f) ELSE FreshCheckpoint(src, vb)[f]]

\* States of the checkpoint file that nobody saved: missing, damaged, or JSON
\* of another shape.
ForeignFiles ==
    {NoFile, NonUtf8File, InvalidJsonFile,
     JsonFile(<<"array", <<>>>>),
     JsonFile(<<"null">>),
     JsonFile(<<"object", [k \in {"bad"} |-> <<"string", "data">>]>>),
     JsonFile(<<"object", [k \in {"source_file"} |-> <<"string", "/films/film.mkv">>]>>),
     JsonFile(<<"object", [k \in RequiredFields |-> <<"string", "action">>]>>),
     JsonFile(<<"object", [k \in RequiredFields \cup {"proxy_duration_s"} |->
                              <<"string", "action">>]>>)}

\* ckpt.mark_stage_complete(stage)
CkMark ==
    \E st \in MarkedStages :
        /\ ck.marks[st] < MaxMarks
        /\ ck' = [ck EXCEPT !.mem = MarkStageComplete(@, st), !.loaded = NotLoaded,
                            !.marks[st] = @ + 1]
        /\ UNCHANGED notCkpt

\* save_checkpoint(ckpt, work_dir), from the call to the return.
CkSave ==
    /\ ck.saves < MaxCkptSaves
    /\ ck' = [ck EXCEPT !.file = SavedFile(ck.mem), !.saved = ck.mem, !.prev = ck.saved,
                        !.saves = @ + 1, !.loaded = NotLoaded]
    /\ UNCHANGED notCkpt

\* load_checkpoint(work_dir)
CkLoad ==
    /\ ck.loaded = NotLoaded
    /\ ck' = [ck EXCEPT !.loaded = LoadCheckpoint(ck.file)]
    /\ UNCHANGED notCkpt

InitCkpt ==
    /\ EngineIdle
    /\ VramIdle
    /\ EncodeIdle
    /\ StoreIdle
    /\ CacheIdle
    /\ RunIdle
    /\ \E s \in Sources, v \in Vibes, S \in SUBSET OutputFields, f \in ForeignFiles :
         ck = [mem |-> CheckpointWith(s, v, S), file |-> f, loaded |-> NotLoaded,
               saved |-> FreshCheckpoint("", ""),
               prev |-> FreshCheckpoint("", ""), saves |-> 0, marks |-> NoMarks]

NextCkpt ==
    \/ CkMark
    \/ CkSave
    \/ CkLoad

SpecCkpt == InitCkpt /\ [][NextCkpt]_vars

(***************************************************************************)
(* Claims about the checkpoint store (checked under SpecCkpt)              *)
(***************************************************************************)
\* A file that is no checkpoint: damaged, not a JSON object, or an object
\* with an unknown key or without a required key.
Malformed(file) ==
    \/ file.kind \in {"nonutf8", "invalid"}
    \/ file.kind = "json" /\ ConstructorRaises(JsonLoads(file.val))

\* C7: load_checkpoint never raises, whatever the file holds, and returns
\* absent for every malformed file.
C7_LoadNeverRaises ==
    ck.loaded # NotLoaded =>
        /\ ck.loaded.status # "raised"
        /\ Malformed(ck.file) => ck.loaded.status = "none"

\* C8: load_checkpoint after save_checkpoint(c) returns a checkpoint equal to
\* c field by field, c being the value handed to the latest save.
C8_LoadAfterSaveRoundTrip ==
    (ck.loaded # NotLoaded /\ ck.saves > 0) =>
        /\ ck.loaded.status = "ckpt"
        /\ \A f \in Fields : ck.loaded.value[f] = ck.saved[f]

\* C8 witness: a second save overwrote the first; the loaded checkpoint has
\* two completed stages, a non-null and a null output.
C8_Witness ==
    /\ ck.saves = 2
    /\ ck.loaded.status = "ckpt"
    /\ Len(ck.loaded.value.stages_complete[2]) = 2
    /\ ck.loaded.value.proxy_path # PyNone
    /\ ck.loaded.value.manifest_path = PyNone
    /\ ck.prev # ck.saved
    /\ ck.prev.source_file = ck.saved.source_file

\* How many times the stage name occurs in stages_complete.
Occurrences(c, stage) ==
    Cardinality({i \in DOMAIN c.stages_complete[2] : c.stages_complete[2][i] = PyStr(stage)})

\* C18: every call of mark_stage_complete(stage), the first and each repeated
\* one, leaves the name in stages_complete exactly once with
\* is_stage_complete(stage) true, and changes neither the number of
\* occurrences of any other stage name nor any other field of the checkpoint.
C18_MarkIdempotent ==
    [][\A st \in MarkedStages :
          ck'.marks[st] = ck.marks[st] + 1 =>
              /\ Occurrences(ck'.mem, st) = 1
              /\ IsStageComplete(ck'.mem, st)
              /\ \A o \in MarkedStages \ {st} :
                     Occurrences(ck'.mem, o) = Occurrences(ck.mem, o)
              /\ Len(ck'.mem.stages_complete[2]) =
                     Len(ck.mem.stages_complete[2]) + (1 - Occurrences(ck.mem, st))
              /\ \A f \in Fields \ {"stages_complete"} : ck'.mem[f] = ck.mem[f]]_vars

\* C18 witness: "proxy" was marked twice and "subtitles" once; the list holds
\* the two names once each and an output field set before is still set.
C18_Witness ==
    /\ ck.marks["proxy"] = 2
    /\ ck.marks["subtitles"] = 1
    /\ Len(ck.mem.stages_complete[2]) = 2
    /\ IsStageComplete(ck.mem, "proxy")
    /\ IsStageComplete(ck.mem, "subtitles")
    /\ ck.mem.proxy_path # PyNone

(***************************************************************************)
(* The inference result cache (checked under SpecCache)                    *)
(***************************************************************************)
\* save_cache(results, source_file, work_dir), from the call to the return;
\* work_dir is the directory main passes, _setup_work_dir(source_file).
CacheSave ==
    \E p \in Videos, r \in ResultLists :
        LET c == CachePath(p, WorkDir(p)) IN
        /\ ca.stat[p] # NoStat
        /\ ca' = [ca EXCEPT !.files[c] = PackedCacheFile(r, p, ca.stat[p]),
                            !.saved[c] = r,
                            !.basis[c] = ca.stat[p].mtime,
                            !.out = NoCacheLoad]
        /\ UNCHANGED notCache

\* load_cache(source_file, work_dir)
CacheLoad ==
    \E p \in Videos :
        /\ ca.out = NoCacheLoad
        /\ ca' = [ca EXCEPT !.out =
                     [status |-> LoadCache(p, WorkDir(p), ca.files, ca.stat[p]).status,
                      value |-> LoadCache(p, WorkDir(p), ca.files, ca.stat[p]).value,
                      src |-> p]]
        /\ UNCHANGED notCache

\* The source file gets a later modification time, its size unchanged.
TouchSource ==
    \E p \in Videos :
        /\ ca.stat[p] # NoStat
        /\ ca.stat[p].mtime < MaxMtime
        /\ ca' = [ca EXCEPT !.stat[p].mtime = @ + 1, !.out = NoCacheLoad]
        /\ UNCHANGED notCache

\* The source file gets another size, its modification time put back.
ResizeSource ==
    \E p \in Videos, z \in Sizes :
        /\ ca.stat[p] # NoStat
        /\ z # ca.stat[p].size
        /\ ca' = [ca EXCEPT !.stat[p].size = z, !.out = NoCacheLoad]
        /\ UNCHANGED notCache

\* The source file is removed.
RemoveSource ==
    \E p \in Videos :
        /\ ca.stat[p] # NoStat
        /\ ca' = [ca EXCEPT !.stat[p] = NoStat, !.out = NoCacheLoad]
        /\ UNCHANGED notCache

InitCache ==
    /\ EngineIdle
    /\ VramIdle
    /\ EncodeIdle
    /\ StoreIdle
    /\ CkptIdle
    /\ RunIdle
    /\ \E c \in CachePaths,
          f \in {NoCacheFile, CorruptCacheFile, NotMapCacheFile, NoMetaCacheFile,
                 BadRecordCacheFile([mtime |-> 1, size |-> 10])} :
         ca = [stat |-> [p \in Videos |-> [mtime |-> 1, size |-> 10]],
               files |-> [q \in CachePaths |-> IF q = c THEN f ELSE NoCacheFile],
               saved |-> [q \in CachePaths |-> <<>>],
               basis |-> [q \in CachePaths |-> 0],
               out |-> NoCacheLoad]

NextCache ==
    \/ CacheSave
    \/ CacheLoad
    \/ TouchSource
    \/ ResizeSource
    \/ RemoveSource

SpecCache == InitCache /\ [][NextCache]_vars

(***************************************************************************)
(* Claims about the result cache (checked under SpecCache)                 *)
(***************************************************************************)
\* The cache file load_cache last looked at.
LookedAt == ca.files[CachePath(ca.out.src, WorkDir(ca.out.src))]

\* C9: load_cache(src) after save_cache(results, src) returns the saved
\* results when the stored mtime and size both equal the current stat of src,
\* and absent when either differs.
C9_HitIffMetadataEqualsStat ==
    (/\ ca.out # NoCacheLoad
     /\ LookedAt.kind = "msgpack"
     /\ LookedAt.payload.metadata.source_file = Str(ca.out.src)) =>
        IF /\ LookedAt.payload.metadata.mtime = ca.stat[ca.out.src].mtime
           /\ LookedAt.payload.metadata.size = ca.stat[ca.out.src].size
        THEN /\ ca.out.status = "results"
             /\ ca.out.value = ca.saved[CachePath(ca.out.src, WorkDir(ca.out.src))]
        ELSE ca.out.status = "none"

\* C9 witness: only the size of src changed after the save of a non-empty
\* result list, and load_cache(src) returned absent.
C9_Witness ==
    /\ ca.out.status = "none"
    /\ LookedAt.kind = "msgpack"
    /\ LookedAt.payload.metadata.source_file = Str(ca.out.src)
    /\ LookedAt.payload.metadata.mtime = ca.stat[ca.out.src].mtime
    /\ LookedAt.payload.metadata.size # ca.stat[ca.out.src].size
    /\ Len(ca.saved[CachePath(ca.out.src, WorkDir(ca.out.src))]) = 2

\* C11: load_cache never raises; it returns a result list only when the cache
\* file unpacks to the saved structure, the source file can be stat-ed and the
\* stored mtime and size equal its stat, and absent in every other case.
C11_LoadCacheNeverRaises ==
    ca.out # NoCacheLoad =>
        /\ ca.out.status \in {"none", "results"}
        /\ ca.out.status = "results" <=>
               /\ LookedAt.kind = "msgpack"
               /\ ca.stat[ca.out.src] # NoStat
               /\ LookedAt.payload.metadata.mtime = ca.stat[ca.out.src].mtime
               /\ LookedAt.payload.metadata.size = ca.stat[ca.out.src].size

\* C11 witness: the cache file is a saved one, the source file is gone, and
\* load_cache returned absent.
C11_Witness ==
    /\ ca.out.status = "none"
    /\ LookedAt.kind = "msgpack"
    /\ LookedAt.payload.metadata.source_file = Str(ca.out.src)
    /\ ca.stat[ca.out.src] = NoStat

\* The list handed to the save_cache that wrote the file load_cache looked at.
SavedList == ca.saved[CachePath(ca.out.src, WorkDir(ca.out.src))]

\* C12: a load_cache that hits after save_cache(results, src) returns as many
\* pairs as were saved, in the same order, each record equal field by field,
\* each description equal, and an absent description still absent.
C12_CacheRoundTrip ==
    (/\ ca.out.status = "results"
     /\ LookedAt.payload.metadata.source_file = Str(ca.out.src)) =>
        /\ Len(ca.out.value) = Len(SavedList)
        /\ \A i \in 1..Len(SavedList) :
              /\ \A f \in RecordFields : ca.out.value[i][1][f] = SavedList[i][1][f]
              /\ SavedList[i][2] = PyNone <=> ca.out.value[i][2] = PyNone
              /\ SavedList[i][2] # PyNone =>
                     \A f \in DescriptionFields :
                         ca.out.value[i][2][2][f] = SavedList[i][2][2][f]

\* C12 witness: two pairs came back, the first without description, the
\* second with one.
C12_Witness ==
    /\ ca.out.status = "results"
    /\ LookedAt.payload.metadata.source_file = Str(ca.out.src)
    /\ Len(ca.out.value) = 2
    /\ ca.out.value[1][2] = PyNone
    /\ ca.out.value[2][2] # PyNone
    /\ ca.out.value[1][1].timestamp_s < ca.out.value[2][1].timestamp_s

\* C10: load_cache for a source file whose path is not the stored source_file
\* returns absent, whatever the stem, mtime and size.
C10_OtherPathReturnsAbsent ==
    (/\ ca.out # NoCacheLoad
     /\ LookedAt.kind = "msgpack"
     /\ LookedAt.payload.metadata.source_file # Str(ca.out.src)) =>
        ca.out.status = "none"

(***************************************************************************)
(* A run of main from the checkpoint init to the proxy duration (SpecRun)  *)
(*                                                                         *)
(* The run has no --manifest.  After stage 1 main reads                    *)
(* ckpt.proxy_duration_s (cli.py:241); PipelineCheckpoint declares no such *)
(* field and nothing sets the attribute before, so the read raises         *)
(* AttributeError, which `except CineCutError` does not catch: the run     *)
(* ends there.                                                             *)
(***************************************************************************)
\* ckpt = load_checkpoint(work_dir); an exception of load_checkpoint leaves
\* main, the call being outside the try statement.
RunLoadCheckpoint ==
    /\ run.pc = "load"
    /\ run' = [run EXCEPT !.loaded = LoadCheckpoint(ck.file),
                          !.pc = IF LoadCheckpoint(ck.file) = LoadRaised
                                 THEN "crashed" ELSE "init"]
    /\ UNCHANGED <<ck, ca>>
    /\ UNCHANGED notRun

\* The staleness test, and the fresh checkpoint when none is kept.
RunCheckpointInit ==
    /\ run.pc = "init"
    /\ ck' = [ck EXCEPT !.mem =
                 IF run.loaded.status = "ckpt" /\ ~IsStale(run.loaded.value, run.video)
                 THEN run.loaded.value
                 ELSE FreshCheckpoint(Str(run.video), run.vibe)]
    /\ run' = [run EXCEPT !.pc = "stage1"]
    /\ UNCHANGED ca
    /\ UNCHANGED notRun

\* Stage 1: the gate, and create_proxy returning.
Stage1Proxy ==
    /\ run.pc = "stage1"
    /\ IF ~IsStageComplete(ck.mem, "proxy")
       THEN /\ ck' = [ck EXCEPT !.mem = RunStage(ck.mem, "proxy"),
                                !.file = SavedFile(RunStage(ck.mem, "proxy"))]
            /\ run' = [run EXCEPT !.ran = @ \cup {"proxy"}, !.pc = "duration"]
       ELSE /\ ck' = ck
            /\ run' = [run EXCEPT !.skipped = @ \cup {"proxy"}, !.pc = "duration"]
    /\ UNCHANGED ca
    /\ UNCHANGED notRun

\* Stage 1: create_proxy raising ProxyError, which main turns into exit 1.
Stage1ProxyFails ==
    /\ run.pc = "stage1"
    /\ ~IsStageComplete(ck.mem, "proxy")
    /\ run' = [run EXCEPT !.pc = "exit1"]
    /\ UNCHANGED <<ck, ca>>
    /\ UNCHANGED notRun

\* `if ckpt.proxy_duration_s is None`: AttributeError.
ProxyDurationRead ==
    /\ run.pc = "duration"
    /\ run' = [run EXCEPT !.pc = "crashed"]
    /\ UNCHANGED <<ck, ca>>
    /\ UNCHANGED notRun

\* The checkpoint files an earlier run can have left, for any film and vibe.
EarlierCheckpointFiles ==
    {SavedFile(CheckpointAfter(s, v, k)) : s \in Sources, v \in Vibes, k \in 0..Len(StageOrder)}

InitRun ==
    /\ EngineIdle
    /\ VramIdle
    /\ EncodeIdle
    /\ StoreIdle
    /\ CacheIdle
    /\ \E f \in ForeignFiles \cup EarlierCheckpointFiles :
         ck = [mem |-> FreshCheckpoint("", ""), file |-> f, loaded |-> NotLoaded,
               saved |-> FreshCheckpoint("", ""), prev |-> FreshCheckpoint("", ""),
               saves |-> 0, marks |-> NoMarks]
    /\ \E p \in Videos, v \in Vibes :
         run = [pc |-> "load", video |-> p, vibe |-> v, loaded |-> NotLoaded,
                attrs |-> {}, ran |-> {}, skipped |-> {}, miss |-> FALSE, recomputed |-> FALSE, redone |-> {}]

NextRun ==
    \/ RunLoadCheckpoint
    \/ RunCheckpointInit
    \/ Stage1Proxy
    \/ Stage1ProxyFails
    \/ ProxyDurationRead

SpecRun == InitRun /\ [][NextRun]_vars

(***************************************************************************)
(* Claims about the start of a run (checked under SpecRun)                 *)
(***************************************************************************)
\* load_checkpoint returned a checkpoint of another source file.
LoadedStale ==
    /\ run.loaded.status = "ckpt"
    /\ run.loaded.value.source_file # PyStr(Str(run.video))

\* C6: when the loaded checkpoint names another source file, the run goes on
\* with a fresh checkpoint (no stage complete, every output null), skips no
\* stage, and its checkpoint lists only stages this run ran.
C6_StaleCheckpointDiscarded ==
    LoadedStale =>
        /\ run.pc = "stage1" => ck.mem = FreshCheckpoint(Str(run.video), run.vibe)
        /\ run.skipped = {}
        /\ run.pc \in {"stage1", "duration", "exit1", "crashed"} =>
               \A st \in AfterInference \cup {"proxy", "subtitles", "keyframes"} :
                   IsStageComplete(ck.mem, st) => st \in run.ran

\* C6 witness: the discarded checkpoint had every stage complete, and the run
\* ran stage 1 again.
C6_Witness ==
    /\ LoadedStale
    /\ IsStageComplete(run.loaded.value, "proxy")
    /\ IsStageComplete(run.loaded.value, "music")
    /\ run.pc = "duration"
    /\ run.ran = {"proxy"}
    /\ ck.file = SavedFile(RunStage(FreshCheckpoint(Str(run.video), run.vibe), "proxy"))

(***************************************************************************)
(* The stages of main from subtitle parsing on (SpecStages)                *)
(*                                                                         *)
(* Execution is taken up at cli.py:249 with the checkpoints that the stage *)
(* code itself writes, since under SpecRun no run gets past cli.py:241.    *)
(* The checkpoint in memory was loaded from the file: it has the declared  *)
(* fields only.                                                            *)
(***************************************************************************)
\* save_checkpoint(ckpt, work_dir) with ckpt = c.
WithCheckpoint(c) == [ck EXCEPT !.mem = c, !.file = SavedFile(c)]

\* The modification time of the source file that the proxy was made from:
\* stage 1 is complete in every checkpoint the runs start from, and the gate
\* of stage 1 (cli.py:227-238) keeps the proxy file of the checkpoint.
ProxyVersion == MaxMtime

\* What load_cache(video, work_dir) returns to stage 4.
Stage4Lookup == LoadCache(run.video, WorkDir(run.video), ca.files, ca.stat[run.video])

\* Stage 4 on a cache hit.
Stage4CacheHit ==
    /\ run.pc = "stage4"
    /\ Stage4Lookup.status = "results"
    /\ run' = [run EXCEPT !.attrs = @ \cup {"cache_hit"}, !.pc = "stage5"]
    /\ ck' = WithCheckpoint([ck.mem EXCEPT !.inference_complete = PyBool(TRUE)])
    /\ UNCHANGED ca
    /\ UNCHANGED notRun

\* Stage 4 on a miss: cascade reset, inference, save_cache, save_checkpoint.
Stage4CacheMiss ==
    /\ run.pc = "stage4"
    /\ Stage4Lookup.status = "none"
    /\ \E r \in ResultLists :
         LET c == CachePath(run.video, WorkDir(run.video)) IN
         ca' = [ca EXCEPT !.files[c] = PackedCacheFile(r, run.video, ca.stat[run.video]),
                          !.saved[c] = r,
                          !.basis[c] = ProxyVersion]
    /\ run' = [run EXCEPT !.attrs = @ \cup {"cache_hit"}, !.miss = TRUE, !.pc = "stage5",
                          !.recomputed = TRUE, !.redone = {}]
    /\ ck' = WithCheckpoint([CascadeReset(ck.mem) EXCEPT !.inference_complete = PyBool(TRUE)])
    /\ UNCHANGED notRun

\* Stage 4 on a miss, interrupted between its two file writes: save_cache has
\* returned, and before save_checkpoint (cli.py:387) replaces the checkpoint
\* file the process is killed, or save_checkpoint raises OSError and main ends.
\* The cascade reset was made in memory only.
Stage4InterruptedBetweenSaves ==
    /\ run.pc = "stage4"
    /\ Stage4Lookup.status = "none"
    /\ \E r \in ResultLists :
         LET c == CachePath(run.video, WorkDir(run.video)) IN
         ca' = [ca EXCEPT !.files[c] = PackedCacheFile(r, run.video, ca.stat[run.video]),
                          !.saved[c] = r,
                          !.basis[c] = ProxyVersion]
    /\ run' = [run EXCEPT !.attrs = @ \cup {"cache_hit"}, !.miss = TRUE, !.pc = "interrupted",
                          !.recomputed = TRUE, !.redone = {}]
    /\ ck' = [ck EXCEPT !.mem = CascadeReset(ck.mem)]
    /\ UNCHANGED notRun

\* The checkpoint main goes on with when load_checkpoint returned c: a new one
\* when c names another source file, else c.
InitCheckpoint(c, video, vb) ==
    IF IsStale(c, video) THEN FreshCheckpoint(Str(video), vb) ELSE c

\* The user runs cinecut again on the same video with the same vibe: the
\* checkpoint is loaded from the work directory (cli.py:190-195).
RunAgain ==
    /\ run.pc = "interrupted"
    /\ LET l == LoadCheckpoint(ck.file)
           c == IF l.status = "ckpt" THEN InitCheckpoint(l.value, run.video, run.vibe)
                ELSE FreshCheckpoint(Str(run.video), run.vibe) IN
       /\ ck' = [ck EXCEPT !.mem = c]
       /\ run' = [run EXCEPT !.pc = "stage2", !.loaded = Loaded(c), !.attrs = {},
                             !.ran = {}, !.skipped = {}, !.miss = FALSE]
    /\ UNCHANGED ca
    /\ UNCHANGED notRun

\* The source file is modified or replaced under its path, between two runs
\* or while a run is between the proxy and save_cache: its modification time
\* becomes later.  The work directory, named after the path, stays.
SourceModified ==
    /\ run.pc \in {"stage2", "stage3", "stage4", "interrupted"}
    /\ ca.stat[run.video].mtime = ProxyVersion
    /\ ca' = [ca EXCEPT !.stat[run.video].mtime = @ + 1]
    /\ UNCHANGED <<ck, run>>
    /\ UNCHANGED notRun

\* Stage 4 on a miss, run_inference_stage raising InferenceError or VramError:
\* the cascade reset stays in memory and main exits with status 1.
Stage4InferenceFails ==
    /\ run.pc = "stage4"
    /\ Stage4Lookup.status = "none"
    /\ run' = [run EXCEPT !.attrs = @ \cup {"cache_hit"}, !.miss = TRUE, !.pc = "exit1"]
    /\ ck' = [ck EXCEPT !.mem = CascadeReset(ck.mem)]
    /\ UNCHANGED ca
    /\ UNCHANGED notRun

\* Stage 5: the gate; the resume branch reads ckpt.structural_anchors, an
\* attribute only the other branch sets (AttributeError without it).
Stage5Structural ==
    /\ run.pc = "stage5"
    /\ IF ~IsStageComplete(ck.mem, "structural")
       THEN /\ ck' = WithCheckpoint(RunStage(ck.mem, "structural"))
            /\ run' = [run EXCEPT !.attrs = @ \cup {"structural_anchors"},
                                  !.ran = @ \cup {"structural"}, !.pc = "stage6"]
       ELSE /\ ck' = ck
            /\ run' = [run EXCEPT !.skipped = @ \cup {"structural"},
                                  !.pc = IF "structural_anchors" \in run.attrs
                                         THEN "stage6" ELSE "crashed"]
    /\ UNCHANGED ca
    /\ UNCHANGED notRun

\* The stages whose resume branch calls the function of the stage again:
\* parse_subtitles (cli.py:268), extract_all_keyframes (cli.py:327) and
\* assemble_manifest (cli.py:475).
ResumeReruns == {"subtitles", "keyframes", "assembly"}

\* A gated stage: run, record the output, mark, save; or the resume branch.
\* run.ran holds the stages whose work this run executed, run.skipped those
\* whose gate took the resume branch.
GatedStage(st, next) ==
    IF ~IsStageComplete(ck.mem, st)
    THEN /\ ck' = WithCheckpoint(RunStage(ck.mem, st))
         /\ run' = [run EXCEPT !.ran = @ \cup {st},
                               !.redone = IF run.recomputed THEN @ \cup {st} ELSE @,
                               !.pc = next]
    ELSE /\ ck' = ck
         /\ run' = [run EXCEPT !.skipped = @ \cup {st},
                               !.ran = IF st \in ResumeReruns THEN @ \cup {st} ELSE @,
                               !.pc = next]

\* Stage 2: subtitle parsing.
Stage2Subtitles ==
    /\ run.pc = "stage2"
    /\ GatedStage("subtitles", "stage3")
    /\ UNCHANGED ca
    /\ UNCHANGED notRun

\* Stage 3: keyframe extraction.
Stage3Keyframes ==
    /\ run.pc = "stage3"
    /\ GatedStage("keyframes", "stage4")
    /\ UNCHANGED ca
    /\ UNCHANGED notRun

\* Stage 6: narrative beats and manifest.
Stage6Narrative ==
    /\ run.pc = "stage6"
    /\ GatedStage("narrative", "stage7")
    /\ UNCHANGED ca
    /\ UNCHANGED notRun

\* Stage 7: 3-act assembly.
Stage7Assembly ==
    /\ run.pc = "stage7"
    /\ GatedStage("assembly", "music")
    /\ UNCHANGED ca
    /\ UNCHANGED notRun

\* Music fetch and BPM detection.
StageMusic ==
    /\ run.pc = "music"
    /\ GatedStage("music", "conform")
    /\ UNCHANGED ca
    /\ UNCHANGED notRun

\* The checkpoints a resumed run finds, left by a run with vibe v: those of a
\* run that got as far as k stages, and those a cascade reset went over (whose
\* first three stages are complete).
ResumableCheckpoints(p, v) ==
    LET plain == {CheckpointAfter(Str(p), v, k) : k \in 1..Len(StageOrder)}
        late == {CheckpointAfter(Str(p), v, k) : k \in 3..Len(StageOrder)} IN
    plain \cup {CascadeReset(c) : c \in late}
          \cup {RunStage(CascadeReset(c), "narrative") : c \in late}

\* The cache file of p at the start of stage 4: none, damaged, saved for the
\* present stat of p, or saved for an earlier modification time.
Stage4CacheFiles(p) ==
    {NoCacheFile, CorruptCacheFile} \cup
    {PackedCacheFile(r, p, [mtime |-> m, size |-> 10]) : r \in ResultLists, m \in Mtimes}

InitStages ==
    /\ EngineIdle
    /\ VramIdle
    /\ EncodeIdle
    /\ StoreIdle
    /\ \E p \in Videos, v \in Vibes, w \in Vibes :
         /\ \E c \in ResumableCheckpoints(p, w) :
              ck = [mem |-> InitCheckpoint(c, p, v), file |-> SavedFile(c),
                    loaded |-> NotLoaded,
                    saved |-> FreshCheckpoint("", ""), prev |-> FreshCheckpoint("", ""),
                    saves |-> 0, marks |-> NoMarks]
         /\ \E f \in Stage4CacheFiles(p) :
              ca = [stat |-> [q \in Videos |-> [mtime |-> MaxMtime, size |-> 10]],
                    files |-> [c \in CachePaths |->
                                  IF c = CachePath(p, WorkDir(p)) THEN f ELSE NoCacheFile],
                    saved |-> [c \in CachePaths |-> <<>>],
                    basis |-> [c \in CachePaths |->
                                  IF c = CachePath(p, WorkDir(p)) /\ f.kind = "msgpack"
                                  THEN f.payload.metadata.mtime ELSE 0],
                    out |-> NoCacheLoad]
         /\ run = [pc |-> "stage2", video |-> p, vibe |-> v, loaded |-> Loaded(ck.mem),
                   attrs |-> {}, ran |-> {}, skipped |-> {}, miss |-> FALSE, recomputed |-> FALSE, redone |-> {}]

NextStages ==
    \/ Stage4InterruptedBetweenSaves
    \/ RunAgain
    \/ SourceModified
    \/ Stage2Subtitles
    \/ Stage3Keyframes
    \/ Stage4CacheHit
    \/ Stage4CacheMiss
    \/ Stage4InferenceFails
    \/ Stage5Structural
    \/ Stage6Narrative
    \/ Stage7Assembly
    \/ StageMusic

SpecStages == InitStages /\ [][NextStages]_vars

HeldSince(prev, free, m, now) ==
    IF CheckVramRaw(free) < m THEN 0 - 1
    ELSE IF prev >= 0 THEN prev ELSE now

\* `while time.monotonic() < deadline`, and the raise after the loop.
VwTest ==
    /\ vw.pc = "test"
    /\ vw' = [vw EXCEPT !.pc = IF vw.now < vw.deadline THEN "read" ELSE "raised"]
    /\ UNCHANGED notVram

\* One iteration: the query, the return when enough is free, else the sleep.
VwRead ==
    /\ vw.pc = "read"
    /\ vw' = IF CheckVramRaw(vw.free) >= vw.minFree
             THEN [vw EXCEPT !.pc = "returned"]
             ELSE [vw EXCEPT !.pc = "sleep", !.left = vw.poll]
    /\ UNCHANGED notVram

\* One tick of time.sleep(poll_interval_s); the free memory becomes r.
VwSleepTick ==
    /\ vw.pc = "sleep"
    /\ vw.left > 0
    /\ \E r \in VramReadings :
         vw' = [vw EXCEPT !.now = @ + 1, !.left = @ - 1, !.free = r,
                          !.heldSince = HeldSince(@, r, vw.minFree, vw.now + 1)]
    /\ UNCHANGED notVram

\* time.sleep returns.
VwWake ==
    /\ vw.pc = "sleep"
    /\ vw.left = 0
    /\ vw' = [vw EXCEPT !.pc = "test"]
    /\ UNCHANGED notVram

InitVram ==
    /\ EngineIdle
    /\ EncodeIdle
    /\ StoreIdle
    /\ CkptIdle
    /\ CacheIdle
    /\ RunIdle
    /\ \E m \in MinFrees, p \in 1..MaxPollInterval, d \in 0..MaxTimeout,
          r \in VramReadings :
         vw = [pc |-> "test", now |-> 0, deadline |-> d, poll |-> p, left |-> 0,
               minFree |-> m, free |-> r, heldSince |-> HeldSince(0 - 1, r, m, 0)]

NextVram ==
    \/ VwTest
    \/ VwRead
    \/ VwSleepTick
    \/ VwWake

SpecVram == InitVram /\ [][NextVram]_vars

(***************************************************************************)
(* Claims about wait_for_vram (checked under SpecVram)                     *)
(***************************************************************************)
\* C13: wait_for_vram raises only when the free memory did not reach
\* min_free_mib before the deadline (here: did not reach it and stay there
\* until the raise), and returns only on a reading of at least min_free_mib.
C13_WaitForVramOutcome ==
    /\ vw.pc = "raised" => ~(vw.heldSince >= 0 /\ vw.heldSince < vw.deadline)
    /\ vw.pc = "returned" => CheckVramRaw(vw.free) >= vw.minFree

\* C19: a step of the run takes a stage name out of stages_complete only in
\* stage 4 on a cache miss, only for a stage the cascade names, and then the
\* output reference of that stage is null afterwards; and every checkpoint
\* file written is the checkpoint in memory at that moment, so a name that
\* stays in memory stays in every later saved checkpoint.
C19_StagesMonotonic ==
    [][/\ \A i \in DOMAIN StageOrder :
              (IsStageComplete(ck.mem, StageOrder[i])
                   /\ ~IsStageComplete(ck'.mem, StageOrder[i])) =>
                  /\ run.pc = "stage4"
                  /\ Stage4Lookup.status = "none"
                  /\ StageOrder[i] \in CascadeStages
                  /\ ck'.mem[StageOutput(StageOrder[i])] = PyNone
       /\ ck'.file # ck.file => ck'.file = SavedFile(ck'.mem)]_vars

\* C19 witness: the checkpoint the run resumed had "narrative" and "assembly"
\* complete; the cascade removed both with their manifest references, the
\* earlier stages are still complete, and the checkpoint was saved so.
C19_Witness ==
    /\ run.miss
    /\ run.pc = "stage5"
    /\ IsStageComplete(run.loaded.value, "narrative")
    /\ IsStageComplete(run.loaded.value, "assembly")
    /\ run.loaded.value.assembly_manifest_path # PyNone
    /\ ~IsStageComplete(ck.mem, "narrative")
    /\ ~IsStageComplete(ck.mem, "assembly")
    /\ ck.mem.assembly_manifest_path = PyNone
    /\ IsStageComplete(ck.mem, "keyframes")
    /\ ck.file = SavedFile(ck.mem)

CheckpointOnDisk == LoadCheckpoint(ck.file).value

ResumeRead(st) ==
    CASE st = "proxy" -> "proxy_path"
      [] st = "structural" -> "structural_anchors"
      [] st = "narrative" -> "manifest_path"
      [] st = "assembly" -> "assembly_manifest_path"
      [] OTHER -> ""

VibeStages == {"narrative", "assembly"}

=============================================================================
